---- MODULE Spec2Model ----
(***************************************************************************)
(* Model of tracker_app.py (listing-tracker): the persisted JSON store,    *)
(* the in-memory artist collection, the Streamlit session state and the    *)
(* handlers that mutate them.                                              *)
(*                                                                         *)
(* Strings whose content the code inspects (ids, labels, names typed by    *)
(* the user) are sequences of one-character strings, so that strip, the    *)
(* whitespace collapse of norm, lower and int() are computed.  Catalog     *)
(* keys, which the code only compares, are TLA+ strings.                   *)
(***************************************************************************)
EXTENDS Integers, Sequences, FiniteSets, TLC

VARIABLES
    store,        \* progress.json: NoFile, or the ordered entries of the JSON object
    data,         \* the dict data of the running script, in insertion order
    sessionCb,    \* st.session_state restricted to the checkbox keys
    sessionDel,   \* ids whose del_confirm_<id> flag is in st.session_state
    filter_mode,  \* st.session_state["filter_mode"]
    pc,           \* "start": no script run yet, "run": idle, "crashed": load raised
    nextId,       \* number of uuid4 ids drawn so far
    events,       \* number of user events handled so far
    deleted,      \* history: the artists removed by a confirmed delete
    last          \* history: the last operation, its argument and its outcome

vars == <<store, data, sessionCb, sessionDel, filter_mode, pc, nextId, events,
          deleted, last>>

-----------------------------------------------------------------------------
(* Catalogs                                                                *)

VARIANTS ==
    <<"dikey", "yatay", "kare", "ince_dikey", "ince_yatay", "eksik_dikey",
      "eksik_yatay", "eksik_kare", "eksik_ince_dikey", "eksik_ince_yatay">>

COLUMN_STEPS ==
    <<"eserlerin_editlendi", "kalite_artirildi", "urun_aciklamalari_olusturuldu",
      "mockuplar_videolar_olusturuldu", "printify_yuklendi", "etsy_yuklendi">>

GLOBAL_STEPS ==
    <<"research_tamamlandi", "eksikler_belirlendi", "eksikler_tamamlandi">>

Range(s) == {s[i] : i \in 1..Len(s)}

VariantKeys == Range(VARIANTS)
ColumnKeys == Range(COLUMN_STEPS)
GlobalKeys == Range(GLOBAL_STEPS)

\* order given to a record that has none (10**9)
Sentinel == 1000000000

-----------------------------------------------------------------------------
(* Bounds of the model                                                     *)

\* largest collection the bounded reorder inputs hold
MaxArtists == 3
\* longest subset_ids_new_order list handed to apply_subset_reorder
MaxSubsetLen == 3

-----------------------------------------------------------------------------
(* Strings                                                                 *)

Str(c) == <<c>>

IsSpace(c) == c = " "

RECURSIVE LStrip(_)
LStrip(s) == IF s # <<>> /\ IsSpace(Head(s)) THEN LStrip(Tail(s)) ELSE s

RECURSIVE RStrip(_)
RStrip(s) ==
    IF s # <<>> /\ IsSpace(s[Len(s)]) THEN RStrip(SubSeq(s, 1, Len(s) - 1)) ELSE s

\* str.strip()
Strip(s) == RStrip(LStrip(s))

\* re.sub(r"\s+", " ", s)
RECURSIVE CollapseSpaces(_)
CollapseSpaces(s) ==
    IF s = <<>> THEN <<>>
    ELSE IF IsSpace(Head(s))
         THEN <<" ">> \o CollapseSpaces(LStrip(s))
         ELSE <<Head(s)>> \o CollapseSpaces(Tail(s))

LowerChar(c) ==
    CASE c = "A" -> "a"
      [] c = "B" -> "b"
      [] c = "C" -> "c"
      [] c = "D" -> "d"
      [] c = "E" -> "e"
      [] c = "F" -> "f"
      [] c = "G" -> "g"
      [] c = "H" -> "h"
      [] c = "N" -> "n"
      [] OTHER -> c

\* str.lower()
Lower(s) == [i \in 1..Len(s) |-> LowerChar(s[i])]

norm(s) == Lower(CollapseSpaces(Strip(s)))

-----------------------------------------------------------------------------
(* Records                                                                 *)

empty_variant_steps == [sk \in ColumnKeys |-> FALSE]

empty_global_steps == [gk \in GlobalKeys |-> FALSE]

\* ArtistProgress.new, with the uuid given
ArtistProgressNew(artist_id, label, order) ==
    [id |-> artist_id,
     label |-> Strip(label),
     order |-> order,
     global_steps |-> empty_global_steps,
     variants |-> [vk \in VariantKeys |-> empty_variant_steps]]

\* st.session_state with no checkbox key
NoSession == [x \in {} |-> [s \in {} |-> [k \in {} |-> FALSE]]]

Ids(d) == {d[i].id : i \in 1..Len(d)}

\* d[key] for a key of the dict
Lookup(d, key) == d[CHOOSE i \in 1..Len(d) : d[i].id = key]

\* d[key] = rec: an existing key keeps its place in the insertion order
DictSet(d, key, rec) ==
    IF key \in Ids(d)
    THEN [i \in 1..Len(d) |-> IF d[i].id = key THEN rec ELSE d[i]]
    ELSE Append(d, rec)

\* d.pop(key, None)
DictPop(d, key) == SelectSeq(d, LAMBDA r : r.id # key)

-----------------------------------------------------------------------------
(* The persisted store: raw JSON values                                    *)

NoFile == [file |-> FALSE, entries |-> <<>>]

File(entries) == [file |-> TRUE, entries |-> entries]

\* a JSON scalar: t is "missing", "null", "str", "int", "float" or "bool"
RawMissing == [t |-> "missing", s |-> <<>>, n |-> 0]
RawNull == [t |-> "null", s |-> <<>>, n |-> 0]
RawStr(s) == [t |-> "str", s |-> s, n |-> 0]
RawInt(n) == [t |-> "int", s |-> <<>>, n |-> n]
\* a float with whole part n and a non-zero fraction
RawFloat(n) == [t |-> "float", s |-> <<>>, n |-> n]
RawBool(b) == [t |-> "bool", s |-> <<>>, n |-> IF b THEN 1 ELSE 0]

NoKeys == [k \in {} |-> RawMissing]

\* a JSON value where the code expects an object of scalars
RawObj(m) == [t |-> "obj", m |-> m]
RawNotObj(t) == [t |-> t, m |-> NoKeys]

NoVariants == [k \in {} |-> RawNotObj("missing")]

\* a JSON value where the code expects an object of objects
RawObj2(m) == [t |-> "obj", m |-> m]
RawNotObj2(t) == [t |-> t, m |-> NoVariants]

\* dataclasses.asdict(ap), as json.dumps writes it
asdict(ap) ==
    [obj |-> TRUE,
     id |-> RawStr(ap.id),
     label |-> RawStr(ap.label),
     order |-> RawInt(ap.order),
     global_steps |-> RawObj([k \in DOMAIN ap.global_steps |-> RawBool(ap.global_steps[k])]),
     variants |-> RawObj2([vk \in DOMAIN ap.variants |->
                     RawObj([k \in DOMAIN ap.variants[vk] |-> RawBool(ap.variants[vk][k])])]),
     extra |-> FALSE]

\* save_data: the whole file is rewritten, keyed by the dict's keys
save_data(d) == File([i \in 1..Len(d) |-> [key |-> d[i].id, val |-> asdict(d[i])]])

-----------------------------------------------------------------------------
(* Python conversions used by load_data                                    *)

Digits == <<"0", "1", "2", "3", "4", "5", "6", "7", "8", "9">>

IsDigit(c) == c \in Range(Digits)

DigitVal(c) == (CHOOSE d \in 1..Len(Digits) : Digits[d] = c) - 1

RECURSIVE NatStr(_)
NatStr(n) ==
    IF n < Len(Digits) THEN <<Digits[n + 1]>>
    ELSE NatStr(n \div Len(Digits)) \o <<Digits[(n % Len(Digits)) + 1]>>

\* str(n) of an int
IntStr(n) == IF n < 0 THEN <<"-">> \o NatStr(0 - n) ELSE NatStr(n)

\* str(v.get(field, "")): the text Python prints for each JSON value
PyStr(v) ==
    CASE v.t = "missing" -> <<>>
      [] v.t = "str" -> v.s
      [] v.t = "null" -> <<"N", "o", "n", "e">>
      [] v.t = "int" -> IntStr(v.n)
      [] v.t = "float" -> IntStr(v.n) \o <<".", "5">>
      [] v.t = "bool" -> IF v.n = 1 THEN <<"T", "r", "u", "e">> ELSE <<"F", "a", "l", "s", "e">>
      [] OTHER -> <<"[", "]">>

Unsigned(t) == IF t # <<>> /\ Head(t) \in {"-", "+"} THEN Tail(t) ELSE t

\* whether int(s) accepts the text: blanks around an optionally signed digit run
IsIntLiteral(s) ==
    LET u == Unsigned(Strip(s))
    IN  u # <<>> /\ \A i \in 1..Len(u) : IsDigit(u[i])

RECURSIVE NatVal(_)
NatVal(u) ==
    IF u = <<>> THEN 0
    ELSE NatVal(SubSeq(u, 1, Len(u) - 1)) * Len(Digits) + DigitVal(u[Len(u)])

StrInt(s) ==
    LET t == Strip(s)
    IN  IF t # <<>> /\ Head(t) = "-" THEN 0 - NatVal(Unsigned(t)) ELSE NatVal(Unsigned(t))

\* whether int(v.get("order", 10**9)) returns: None and a list raise TypeError,
\* a text that is no integer literal raises ValueError
PyIntOk(v) ==
    CASE v.t \in {"missing", "int", "float", "bool"} -> TRUE
      [] v.t = "str" -> IsIntLiteral(v.s)
      [] OTHER -> FALSE

\* int(v.get("order", 10**9)); a float is truncated
PyInt(v) ==
    CASE v.t = "missing" -> Sentinel
      [] v.t = "str" -> StrInt(v.s)
      [] OTHER -> v.n

\* bool(x) of a JSON value
PyBool(v) ==
    CASE v.t = "bool" -> v.n = 1
      [] v.t = "int" -> v.n # 0
      [] v.t = "float" -> TRUE
      [] v.t = "str" -> v.s # <<>>
      [] OTHER -> FALSE

\* whether dict(x) returns: an object, a missing key (the {} default) and an
\* empty list do; None and a number raise TypeError, a text raises ValueError
PyDictOk(x) == x.t \in {"missing", "obj", "emptylist"}

\* bool(d.get(k, False)) for d = dict(x)
StepValue(x, k) == IF x.t = "obj" /\ k \in DOMAIN x.m THEN PyBool(x.m[k]) ELSE FALSE

\* variants_in.get(vk, {})
VariantIn(x, vk) == IF x.t = "obj" /\ vk \in DOMAIN x.m THEN x.m[vk] ELSE RawNotObj("missing")

-----------------------------------------------------------------------------
(* load_data                                                               *)

\* whether the body of the loop returns for the entry
EntryLoads(v) ==
    /\ PyIntOk(v.order)
    /\ PyDictOk(v.global_steps)
    /\ PyDictOk(v.variants)
    /\ \A vk \in VariantKeys : PyDictOk(VariantIn(v.variants, vk))

LoadedGlobalStepsKeepExtra(v) ==
    [gk \in GlobalKeys \cup (IF v.global_steps.t = "obj" THEN DOMAIN v.global_steps.m ELSE {}) |->
        StepValue(v.global_steps, gk)]

\* global_steps = empty_global_steps(); global_steps[gk] = bool(global_in.get(gk, False))
LoadedGlobalSteps(v) == [gk \in GlobalKeys |-> StepValue(v.global_steps, gk)]

\* variants[vk] = steps, with steps[sk] = bool(steps_in.get(sk, False))
LoadedVariants(v) ==
    [vk \in VariantKeys |->
        [sk \in ColumnKeys |-> StepValue(VariantIn(v.variants, vk), sk)]]

\* artist_id = str(v.get("id", "")).strip() or str(key).strip()
LoadedId(key, v) ==
    IF Strip(PyStr(v.id)) # <<>> THEN Strip(PyStr(v.id)) ELSE Strip(key)

LoadedLabelStripLast(key, v) ==
    Strip(IF PyStr(v.label) # <<>> THEN PyStr(v.label) ELSE LoadedId(key, v))

\* label = str(v.get("label", "")).strip() or artist_id
LoadedLabel(key, v) ==
    IF Strip(PyStr(v.label)) # <<>> THEN Strip(PyStr(v.label)) ELSE LoadedId(key, v)

\* the ArtistProgress built from one entry
LoadedRecord(key, v) ==
    [id |-> LoadedId(key, v),
     label |-> LoadedLabel(key, v),
     order |-> PyInt(v.order),
     global_steps |-> LoadedGlobalSteps(v),
     variants |-> LoadedVariants(v)]

\* the loop over raw.items(): entries that are no object are skipped
RECURSIVE LoadEntries(_, _)
LoadEntries(entries, acc) ==
    IF entries = <<>> THEN acc
    ELSE LET e == Head(entries)
         IN  IF ~e.val.obj THEN LoadEntries(Tail(entries), acc)
             ELSE LoadEntries(Tail(entries),
                              DictSet(acc, LoadedId(e.key, e.val), LoadedRecord(e.key, e.val)))

\* whether load_data returns for the file: it raises at the first entry whose
\* conversion raises
LoadOk(f) == \A i \in 1..Len(f.entries) : f.entries[i].val.obj => EntryLoads(f.entries[i].val)

\* the collection load_data returns
LoadedData(f) == IF f.file THEN LoadEntries(f.entries, <<>>) ELSE <<>>

\* the file after load_data: rewritten normalized, unless there was none
LoadedStore(f) == IF f.file THEN save_data(LoadedData(f)) ELSE f

-----------------------------------------------------------------------------
(* apply_subset_reorder                                                    *)

\* insert r after every element whose order is <= r.order (sorted is stable)
RECURSIVE InsertByOrder(_, _)
InsertByOrder(sorted, r) ==
    IF sorted = <<>> THEN <<r>>
    ELSE IF Head(sorted).order <= r.order
         THEN <<Head(sorted)>> \o InsertByOrder(Tail(sorted), r)
         ELSE <<r>> \o sorted

RECURSIVE SortedByOrder(_)
SortedByOrder(d) ==
    IF d = <<>> THEN <<>>
    ELSE InsertByOrder(SortedByOrder(SubSeq(d, 1, Len(d) - 1)), d[Len(d)])

\* full_ids = [a.id for a in sorted(data.values(), key=lambda a: a.order)]
FullIds(d) == LET s == SortedByOrder(d) IN [i \in 1..Len(s) |-> s[i].id]

RECURSIVE PositionsFrom(_, _, _)
PositionsFrom(full_ids, subset_set, i) ==
    IF i > Len(full_ids) THEN <<>>
    ELSE (IF full_ids[i] \in subset_set THEN <<i>> ELSE <<>>)
         \o PositionsFrom(full_ids, subset_set, i + 1)

PositionsAll(full_ids, subset_set) == [i \in 1..Len(full_ids) |-> i]

\* positions = [i for i, _id in enumerate(full_ids) if _id in subset_set] (1-based here)
Positions(full_ids, subset_set) == PositionsFrom(full_ids, subset_set, 1)

SubsetMatchesAlways(positions, subset_ids_new_order) == TRUE

\* the negation of the guard "len(positions) != len(subset_ids_new_order)"
SubsetMatches(positions, subset_ids_new_order) ==
    Len(positions) = Len(subset_ids_new_order)

NewFullReversed(full_ids, positions, subset_ids_new_order) ==
    [i \in 1..Len(full_ids) |->
        IF \E j \in 1..Len(positions) : positions[j] = i
        THEN subset_ids_new_order[Len(positions) + 1 - (CHOOSE j \in 1..Len(positions) : positions[j] = i)]
        ELSE full_ids[i]]

NewFullCompacted(full_ids, positions, subset_ids_new_order) ==
    subset_ids_new_order
    \o SelectSeq(full_ids, LAMBDA x : x \notin Range(subset_ids_new_order))

\* new_full = full_ids[:]; new_full[pos] = subset_ids_new_order[j]
NewFull(full_ids, positions, subset_ids_new_order) ==
    [i \in 1..Len(full_ids) |->
        IF \E j \in 1..Len(positions) : positions[j] = i
        THEN subset_ids_new_order[CHOOSE j \in 1..Len(positions) : positions[j] = i]
        ELSE full_ids[i]]

LastIndexOf(s, x) == CHOOSE i \in 1..Len(s) :
                        s[i] = x /\ \A k \in (i + 1)..Len(s) : s[k] # x

RenumberKeepOrders(d, new_full) == d

\* for idx, artist_id in enumerate(new_full, start=1): data[artist_id].order = idx
Renumber(d, new_full) ==
    [i \in 1..Len(d) |->
        IF d[i].id \in Range(new_full)
        THEN [d[i] EXCEPT !.order = LastIndexOf(new_full, d[i].id)]
        ELSE d[i]]

\* whether apply_subset_reorder gets past its guard
ReorderAccepted(d, subset_ids_new_order) ==
    SubsetMatches(Positions(FullIds(d), Range(subset_ids_new_order)), subset_ids_new_order)

\* changed = new_full != full_ids, the value apply_subset_reorder returns
ReorderChanged(d, subset_ids_new_order) ==
    LET full_ids == FullIds(d)
        positions == Positions(full_ids, Range(subset_ids_new_order))
    IN  /\ ReorderAccepted(d, subset_ids_new_order)
        /\ NewFull(full_ids, positions, subset_ids_new_order) # full_ids

\* the collection after apply_subset_reorder
Reordered(d, subset_ids_new_order) ==
    LET full_ids == FullIds(d)
        positions == Positions(full_ids, Range(subset_ids_new_order))
    IN  IF ReorderChanged(d, subset_ids_new_order)
        THEN Renumber(d, NewFull(full_ids, positions, subset_ids_new_order))
        ELSE d

\* the file after apply_subset_reorder: saved only if changed
ReorderedStore(d, f, subset_ids_new_order) ==
    IF ReorderChanged(d, subset_ids_new_order)
    THEN save_data(Reordered(d, subset_ids_new_order))
    ELSE f

\* One call apply_subset_reorder(data, subset_ids_new_order), with its save.
ApplySubsetReorder(subset_ids_new_order) ==
    /\ data' = Reordered(data, subset_ids_new_order)
    /\ store' = ReorderedStore(data, store, subset_ids_new_order)
    /\ last' = [op |-> "reorder", arg |-> subset_ids_new_order,
                accepted |-> ReorderAccepted(data, subset_ids_new_order),
                result |-> ReorderChanged(data, subset_ids_new_order),
                pre |-> data, preStore |-> store]

-----------------------------------------------------------------------------
(* The reorder function on bounded inputs                                  *)

IdNames == <<"A", "B", "C", "D", "E", "F", "G", "H">>

\* an id that is in no collection: an artist deleted after the list was rendered
StaleId == Str("X")

OrderVals == (1..MaxArtists) \cup {Sentinel}

\* a loaded collection of n artists with the given order values
Collection(n, orders) ==
    [i \in 1..n |-> [ArtistProgressNew(Str(IdNames[i]), Str(IdNames[i]), orders[i])
                       EXCEPT !.order = orders[i]]]

\* the collection of the documented example: full order [A,B,C,D,E]
ExampleCollection == Collection(Len(<<"A", "B", "C", "D", "E">>), [i \in 1..Len(IdNames) |-> i])

ReorderCollections ==
    {Collection(Len(o), o) : o \in UNION {[1..m -> OrderVals] : m \in 0..MaxArtists}}
    \cup {ExampleCollection}

SeqsUpTo(S, n) == UNION {[1..m -> S] : m \in 0..n}

SubsetLists(d) == SeqsUpTo(Ids(d) \cup {StaleId}, MaxSubsetLen)

NoOp == [op |-> "none", arg |-> <<>>, accepted |-> FALSE, result |-> FALSE,
         pre |-> <<>>, preStore |-> NoFile]

InitReorder ==
    /\ data \in ReorderCollections
    /\ store = save_data(data)
    /\ sessionCb = NoSession
    /\ sessionDel = {}
    /\ filter_mode = "Hepsi"
    /\ pc = "run"
    /\ nextId = 0
    /\ events = 0
    /\ deleted = {}
    /\ last = NoOp

\* one call on each drawn input
CallReorder ==
    \E subset_ids_new_order \in SubsetLists(data) :
        /\ last.op = "none"
        /\ ApplySubsetReorder(subset_ids_new_order)
        /\ UNCHANGED <<sessionCb, sessionDel, filter_mode, pc, nextId, events, deleted>>

NextReorder == CallReorder

SpecReorder == InitReorder /\ [][NextReorder]_vars

-----------------------------------------------------------------------------
(* load_data on bounded store contents                                     *)

RawList == [t |-> "emptylist", s |-> <<>>, n |-> 0]

\* an object entry with an id and a label and nothing else
PlainEntry ==
    [obj |-> TRUE, id |-> RawStr(Str("A")), label |-> RawStr(Str("a")),
     order |-> RawMissing, global_steps |-> RawNotObj("missing"),
     variants |-> RawNotObj2("missing"), extra |-> FALSE]

\* an entry that is no object (a number, a text, a list)
NonObjectEntry == [PlainEntry EXCEPT !.obj = FALSE]

IdShapes ==
    {RawMissing, RawNull, RawStr(<<" ">>), RawStr(<<" ", "A", " ">>), RawStr(Str("B"))}

LabelShapes ==
    {RawMissing, RawStr(<<" ", " ">>), RawStr(<<" ", "a", " ", " ", "B">>), RawInt(7)}

OrderShapes ==
    {RawMissing, RawInt(2), RawFloat(2), RawBool(TRUE), RawStr(<<" ", "3">>),
     RawStr(Str("x")), RawNull, RawList}

\* a steps object with one key missing, one extra key and a value that is no bool
PartialGlobals ==
    RawObj([k \in {"research_tamamlandi", "eksikler_belirlendi", "legacy_step"} |->
               IF k = "eksikler_belirlendi" THEN RawStr(Str("x")) ELSE RawBool(TRUE)])

GlobalShapes ==
    {RawNotObj("missing"), RawObj([k \in GlobalKeys |-> RawBool(TRUE)]), PartialGlobals,
     RawNotObj("null"), RawNotObj("int"), RawNotObj("emptylist"), RawNotObj("str")}

PartialColumns ==
    RawObj([k \in {"etsy_yuklendi", "kalite_artirildi", "legacy_step"} |->
               IF k = "kalite_artirildi" THEN RawInt(0) ELSE RawBool(TRUE)])

VariantShapes ==
    {RawNotObj2("missing"), RawNotObj2("null"), RawNotObj2("emptylist"),
     RawObj2(NoVariants),
     RawObj2([vk \in {"dikey", "legacy_variant"} |-> PartialColumns]),
     RawObj2([vk \in {"dikey", "kare"} |->
                 IF vk = "kare" THEN RawNotObj("emptylist") ELSE PartialColumns]),
     RawObj2([vk \in {"dikey", "kare"} |->
                 IF vk = "kare" THEN RawNotObj("null") ELSE PartialColumns])}

\* the shapes of a stored entry: one group of fields varies at a time
RawEntries ==
    {NonObjectEntry, [PlainEntry EXCEPT !.extra = TRUE]}
    \cup {[PlainEntry EXCEPT !.id = i, !.label = l] : i \in IdShapes, l \in LabelShapes}
    \cup {[PlainEntry EXCEPT !.order = o] : o \in OrderShapes}
    \cup {[PlainEntry EXCEPT !.global_steps = g] : g \in GlobalShapes}
    \cup {[PlainEntry EXCEPT !.variants = v] : v \in VariantShapes}

\* the keys of the stored object, in file order
StoreKeys == <<<<" ", "A", " ">>, <<>>, Str("B"), Str("C"), Str("D")>>

\* most entries a drawn file holds
MaxEntries == 2

LoadStores ==
    {File([i \in 1..Len(vals) |-> [key |-> StoreKeys[i], val |-> vals[i]]]) :
        vals \in SeqsUpTo(RawEntries, MaxEntries)}
    \cup {NoFile}

InitLoad ==
    /\ store \in LoadStores
    /\ data = <<>>
    /\ sessionCb = NoSession
    /\ sessionDel = {}
    /\ filter_mode = "Hepsi"
    /\ pc = "start"
    /\ nextId = 0
    /\ events = 0
    /\ deleted = {}
    /\ last = NoOp

\* data = load_data() at the top of a script run; arg keeps the entries of
\* the file the first run found
RunLoadData ==
    /\ pc # "crashed"
    /\ last.op \in {"none", "load"}
    /\ IF LoadOk(store)
       THEN /\ data' = LoadedData(store)
            /\ store' = LoadedStore(store)
            /\ pc' = "run"
       ELSE /\ pc' = "crashed"
            /\ UNCHANGED <<data, store>>
    /\ last' = [op |-> IF last.op = "none" THEN "load" ELSE "reload",
                arg |-> IF last.op = "none" THEN store.entries ELSE last.arg,
                accepted |-> LoadOk(store), result |-> store.file,
                pre |-> data, preStore |-> store]
    /\ UNCHANGED <<sessionCb, sessionDel, filter_mode, nextId, events, deleted>>

NextLoad == RunLoadData

SpecLoad == InitLoad /\ [][NextLoad]_vars

-----------------------------------------------------------------------------
(* Completion and filter                                                   *)

\* calc_done_total(ap)[0]
DoneCount(ap) ==
    Cardinality({gk \in GlobalKeys : ap.global_steps[gk]})
    + Cardinality({c \in VariantKeys \X ColumnKeys : ap.variants[c[1]][c[2]]})

\* calc_done_total(ap)[1]
TotalCount == Len(GLOBAL_STEPS) + Len(VARIANTS) * Len(COLUMN_STEPS)

is_completed(ap) == TotalCount > 0 /\ DoneCount(ap) = TotalCount

\* qq in a.label.lower()
Contains(s, qq) == \E i \in 1..(Len(s) + 1) : SubSeq(s, i, i + Len(qq) - 1) = qq

\* the options of the "Goster" select box, in ASCII
FilterModes == {"Hepsi", "Sadece tamamlanmamislar", "Sadece tamamlanmislar"}

\* filter_artists(all_artists, q, filter_mode), as the set of ids it keeps
filter_artists(d, q, mode) ==
    {d[i].id : i \in {j \in 1..Len(d) :
        /\ Strip(q) # <<>> => Contains(Lower(d[j].label), Lower(Strip(q)))
        /\ mode = "Sadece tamamlanmamislar" => ~is_completed(d[j])
        /\ mode = "Sadece tamamlanmislar" => is_completed(d[j])}}

\* the search box; it is left empty in this model
search_q == <<>>

\* visible_ids_in_full_order
VisibleIds(d, mode) ==
    SelectSeq(FullIds(d), LAMBDA x : x \in filter_artists(d, search_q, mode))

-----------------------------------------------------------------------------
(* Session state and the rendering of the cards                            *)
(*                                                                         *)
(* The checkbox key f"{artist_id}__{variant_key}__{step_key}" (with        *)
(* "global" for variant_key None) is the path [artist_id][scope][step_key] *)
(* of sessionCb: no key of the catalogs holds "__", so the text determines *)
(* the three parts.                                                        *)

Scopes == {"global"} \cup VariantKeys

StepKeys(scope) == IF scope = "global" THEN GlobalKeys ELSE ColumnKeys

\* checkbox_key(artist_id, variant_key, step_key) in st.session_state
HasKey(sess, artist_id, scope, step_key) ==
    /\ artist_id \in DOMAIN sess
    /\ scope \in DOMAIN sess[artist_id]
    /\ step_key \in DOMAIN sess[artist_id][scope]

\* the stored value of the step a checkbox key names:
\* ap.global_steps.get(gk, False), ap.variants.get(vk, {}).get(sk, False)
StepOf(ap, scope, step_key) ==
    IF scope = "global"
    THEN IF step_key \in DOMAIN ap.global_steps THEN ap.global_steps[step_key] ELSE FALSE
    ELSE IF scope \in DOMAIN ap.variants /\ step_key \in DOMAIN ap.variants[scope]
         THEN ap.variants[scope][step_key]
         ELSE FALSE

\* the keys of the session state that belong to an artist
KeysOf(sess, artist_id) ==
    IF artist_id \in DOMAIN sess
    THEN {<<sc, k>> \in Scopes \X (GlobalKeys \cup ColumnKeys) :
             HasKey(sess, artist_id, sc, k)}
    ELSE {}

\* st.session_state.pop(checkbox_key(artist_id, ...), None) for the 63 keys
PopArtistKeys(sess, artist_id) == [x \in DOMAIN sess \ {artist_id} |-> sess[x]]

\* set_artist_all_session_state(artist_id, value)
set_artist_all_session_state(sess, artist_id, value) ==
    [x \in DOMAIN sess \cup {artist_id} |->
        IF x = artist_id
        THEN [sc \in Scopes |-> [k \in StepKeys(sc) |-> value]]
        ELSE sess[x]]

\* ensure_checkbox_state(k, stored value) for every checkbox of one card
EnsuredCard(sess, ap) ==
    [sc \in Scopes |->
        [k \in StepKeys(sc) |->
            IF HasKey(sess, ap.id, sc, k) THEN sess[ap.id][sc][k] ELSE StepOf(ap, sc, k)]]

\* the session state after the cards of the shown artists were rendered
RenderedSession(d, sess, mode) ==
    LET shown == filter_artists(d, search_q, mode)
    IN  [x \in DOMAIN sess \cup shown |->
            IF x \in shown THEN EnsuredCard(sess, Lookup(d, x)) ELSE sess[x]]

\* the cards: each shown artist takes the value of each of its checkboxes
\* (ap.global_steps[sk] = ..., ap.variants[vk][sk] = ... over the catalogs)
RenderedData(d, sess, mode) ==
    LET shown == filter_artists(d, search_q, mode)
    IN  [i \in 1..Len(d) |->
            IF d[i].id \in shown
            THEN LET card == EnsuredCard(sess, d[i])
                 IN  [d[i] EXCEPT
                        !.global_steps =
                            [gk \in DOMAIN @ |->
                                IF gk \in GlobalKeys THEN card["global"][gk] ELSE @[gk]],
                        !.variants =
                            [vk \in DOMAIN @ |->
                                IF vk \in VariantKeys
                                THEN [sk \in DOMAIN @[vk] |->
                                         IF sk \in ColumnKeys THEN card[vk][sk] ELSE @[vk][sk]]
                                ELSE @[vk]]]
            ELSE d[i]]

\* The rest of a script run after the handlers: the cards are rendered on
\* collection d (file f, session sess), and a card whose checkboxes differ
\* from its record saves.
FinishRun(d, f, sess, mode) ==
    LET d1 == RenderedData(d, sess, mode)
    IN  /\ data' = d1
        /\ sessionCb' = RenderedSession(d, sess, mode)
        /\ store' = IF d1 # d THEN save_data(d1) ELSE f

\* ap.global_steps = {k: value ...}; ap.variants[vk] = {sk: value ...}
SetSteps(d, artist_id, value) ==
    [i \in 1..Len(d) |->
        IF d[i].id = artist_id
        THEN [d[i] EXCEPT !.global_steps = [k \in GlobalKeys |-> value],
                          !.variants = [vk \in DOMAIN @ \cup VariantKeys |->
                                          IF vk \in VariantKeys
                                          THEN [sk \in ColumnKeys |-> value]
                                          ELSE @[vk]]]
        ELSE d[i]]

-----------------------------------------------------------------------------
(* The application: one action per user event, each a whole script run     *)
(* (load_data, the handler of the event, the rerun it forces, the cards).  *)
(* The events are those of the page as rendered from the current file.     *)
(* st.session_state is the dict the script reads and writes.  Both reorder *)
(* controls are offered: which one the page shows depends on whether       *)
(* streamlit_sortables is installed.                                       *)

\* most user events of a session
MaxEvents == 3
\* the checkboxes clicked: the i-th global step and the i-th column step of
\* the i-th variant, for i up to this
MaxToggleKeys == 1

\* names typed into the add form: blank, plain, padded with doubled blanks
\* and capitals, and another name
Names ==
    {<<" ">>,
     <<"a", " ", "b">>,
     <<" ", "A", " ", " ", "b", " ">>,
     <<"a", "b">>}

\* a file written by hand or by an older version: two entries whose labels
\* differ only in case and blanks, partial step objects, no order on the second
LegacyStore ==
    File(<<[key |-> Str("A"),
            val |-> [PlainEntry EXCEPT !.id = RawMissing,
                                       !.label = RawStr(<<"a", " ", "b">>),
                                       !.order = RawInt(2),
                                       !.global_steps = PartialGlobals]],
           [key |-> Str("B"),
            val |-> [PlainEntry EXCEPT !.id = RawStr(<<" ", "B">>),
                                       !.label = RawStr(<<" ", "A", " ", " ", "b">>),
                                       !.variants =
                                           RawObj2([vk \in {"dikey", "legacy_variant"} |->
                                                       PartialColumns]),
                                       !.extra = TRUE]]>>)

\* a file with one artist whose steps are all checked
DoneStore ==
    File(<<[key |-> Str("C"),
            val |-> [PlainEntry EXCEPT
                        !.id = RawStr(Str("C")),
                        !.label = RawStr(<<"a", "b">>),
                        !.order = RawInt(1),
                        !.global_steps = RawObj([k \in GlobalKeys |-> RawBool(TRUE)]),
                        !.variants = RawObj2([vk \in VariantKeys |->
                                         RawObj([sk \in ColumnKeys |-> RawBool(TRUE)])])]]>>)

AppStores == {NoFile, LegacyStore, DoneStore}

Toggleable ==
    {<<"global", GLOBAL_STEPS[i]>> : i \in 1..MaxToggleKeys}
    \cup {<<VARIANTS[i], COLUMN_STEPS[i]>> : i \in 1..MaxToggleKeys}

\* uuid.uuid4().hex: a value never drawn before
FreshId(n) == <<"u">> \o NatStr(n)

\* max((ap.order for ap in data.values()), default=0)
MaxOrder(d) ==
    IF d = <<>> THEN 0
    ELSE LET os == {d[i].order : i \in 1..Len(d)}
         IN  CHOOSE m \in os : \A o \in os : o <= m

Op(op, arg, accepted, result, pre, preStore) ==
    [op |-> op, arg |-> arg, accepted |-> accepted, result |-> result,
     pre |-> pre, preStore |-> preStore]

Init ==
    /\ store \in AppStores
    /\ data = <<>>
    /\ sessionCb = NoSession
    /\ sessionDel = {}
    /\ filter_mode = "Hepsi"
    /\ pc = "start"
    /\ nextId = 0
    /\ events = 0
    /\ deleted = {}
    /\ last = NoOp

\* the page is up and the session may go on
Ready == pc = "run" /\ events < MaxEvents

\* the first script run of the session
Start ==
    /\ pc = "start"
    /\ IF LoadOk(store)
       THEN /\ pc' = "run"
            /\ FinishRun(LoadedData(store), LoadedStore(store), sessionCb, filter_mode)
       ELSE /\ pc' = "crashed"
            /\ UNCHANGED <<data, store, sessionCb>>
    /\ last' = Op("start", store.entries, LoadOk(store), store.file, <<>>, NoFile)
    /\ UNCHANGED <<sessionDel, filter_mode, nextId, events, deleted>>

CreateAcceptedExact(d, new_name) ==
    /\ Strip(new_name) # <<>>
    /\ ~\E i \in 1..Len(d) : d[i].label = Strip(new_name)

AcceptsAnyName(d, new_name) == Strip(new_name) # <<>>

\* the two tests of the add form: a name, and no artist with the same norm
CreateAccepted(d, new_name) ==
    /\ Strip(new_name) # <<>>
    /\ ~\E i \in 1..Len(d) : norm(d[i].label) = norm(Strip(new_name))

\* In the actions below d0 is data = load_data() of the run that handles the
\* event, and the load has rewritten the file as LoadedStore(store).
RunData == {LoadedData(store)}

\* the add form is submitted with new_name
Create(new_name) ==
    /\ Ready
    /\ events' = events + 1
    /\ \E d0 \in RunData :
           LET ok == CreateAccepted(d0, new_name)
               ap == ArtistProgressNew(FreshId(nextId + 1), Strip(new_name), MaxOrder(d0) + 1)
               d1 == IF ok THEN DictSet(d0, ap.id, ap) ELSE d0
               f1 == IF ok THEN save_data(d1) ELSE LoadedStore(store)
           IN  /\ nextId' = IF ok THEN nextId + 1 ELSE nextId
               /\ FinishRun(d1, f1, sessionCb, filter_mode)
               /\ deleted' = IF ok
                             THEN {[r EXCEPT !.open = @ /\ norm(r.label) # norm(ap.label)] :
                                      r \in deleted}
                             ELSE deleted
               /\ last' = Op("create", new_name, ok, ok, d0, store)
               /\ UNCHANGED <<sessionDel, filter_mode, pc>>

\* the "Goster" select box is set to mode
SetFilter(mode) ==
    /\ Ready
    /\ events' = events + 1
    /\ mode # filter_mode
    /\ filter_mode' = mode
    /\ \E d0 \in RunData : FinishRun(d0, LoadedStore(store), sessionCb, mode)
    /\ last' = Op("filter", <<>>, TRUE, FALSE, <<>>, NoFile)
    /\ UNCHANGED <<sessionDel, pc, nextId, deleted>>

\* the reorder controls hand new_ids to apply_subset_reorder
SubmitOrder(d0, new_ids) ==
    /\ FinishRun(Reordered(d0, new_ids), ReorderedStore(d0, LoadedStore(store), new_ids),
                 sessionCb, filter_mode)
    /\ last' = Op("reorder", new_ids, ReorderAccepted(d0, new_ids),
                  ReorderChanged(d0, new_ids), d0, store)
    /\ UNCHANGED <<sessionDel, filter_mode, pc, nextId, deleted>>

Swapped(s, i, j) == [s EXCEPT ![i] = s[j], ![j] = s[i]]

\* sort_items returns the visible ids dragged into another order
DragReorder ==
    /\ Ready
    /\ events' = events + 1
    /\ \E d0 \in RunData :
           \E shown \in {VisibleIds(d0, filter_mode)} :
               \E new_ids \in [1..Len(shown) -> Range(shown)] :
                   /\ Range(new_ids) = Range(shown)
                   /\ new_ids # <<>>
                   /\ new_ids # shown
                   /\ SubmitOrder(d0, new_ids)

\* the up button of the i-th visible artist
MoveUp ==
    /\ Ready
    /\ events' = events + 1
    /\ \E d0 \in RunData :
           \E shown \in {VisibleIds(d0, filter_mode)} :
               \E i \in 2..Len(shown) : SubmitOrder(d0, Swapped(shown, i - 1, i))

\* the down button of the i-th visible artist
MoveDown ==
    /\ Ready
    /\ events' = events + 1
    /\ \E d0 \in RunData :
           \E shown \in {VisibleIds(d0, filter_mode)} :
               \E i \in 1..(Len(shown) - 1) : SubmitOrder(d0, Swapped(shown, i + 1, i))

\* the ids whose card the run shows
Shown(d0) == filter_artists(d0, search_q, filter_mode)

\* the three bulk buttons of a card: the record, the save, the session keys
BulkSet(d0, op, artist_id, value) ==
    LET d1 == SetSteps(d0, artist_id, value)
    IN  /\ FinishRun(d1, save_data(d1),
                     set_artist_all_session_state(sessionCb, artist_id, value), filter_mode)
        /\ last' = Op(op, artist_id, TRUE, TRUE, <<>>, NoFile)
        /\ UNCHANGED <<sessionDel, filter_mode, pc, nextId, deleted>>

\* btn_all_<id>
SetAll ==
    /\ Ready
    /\ events' = events + 1
    /\ \E d0 \in RunData :
           \E artist_id \in Shown(d0) : BulkSet(d0, "set_all", artist_id, TRUE)

\* btn_none_<id>
ClearAll ==
    /\ Ready
    /\ events' = events + 1
    /\ \E d0 \in RunData :
           \E artist_id \in Shown(d0) : BulkSet(d0, "clear_all", artist_id, FALSE)

\* btn_reset_<id>
ResetSteps ==
    /\ Ready
    /\ events' = events + 1
    /\ \E d0 \in RunData :
           \E artist_id \in Shown(d0) : BulkSet(d0, "reset", artist_id, FALSE)

\* a checkbox of a shown card is clicked: the widget value changes, the card
\* copies it into the record and saves; there is no rerun
Toggle ==
    /\ Ready
    /\ events' = events + 1
    /\ \E d0 \in RunData :
           \E artist_id \in Shown(d0), t \in Toggleable :
               /\ HasKey(sessionCb, artist_id, t[1], t[2])
               /\ FinishRun(d0, LoadedStore(store),
                            [sessionCb EXCEPT ![artist_id][t[1]][t[2]] = ~@], filter_mode)
               /\ last' = Op("toggle", artist_id, TRUE, TRUE, <<>>, NoFile)
    /\ UNCHANGED <<sessionDel, filter_mode, pc, nextId, deleted>>

\* btn_del_<id>: the confirm flag is set
AskDelete ==
    /\ Ready
    /\ events' = events + 1
    /\ \E d0 \in RunData :
           \E artist_id \in Shown(d0) :
               /\ artist_id \notin sessionDel
               /\ sessionDel' = sessionDel \cup {artist_id}
               /\ FinishRun(d0, LoadedStore(store), sessionCb, filter_mode)
               /\ last' = Op("ask_delete", artist_id, TRUE, FALSE, <<>>, NoFile)
    /\ UNCHANGED <<filter_mode, pc, nextId, deleted>>

DeletedSessionKept(sess, artist_id) == sess

\* the checkbox keys left after the delete handler popped those of the artist
DeletedSession(sess, artist_id) == PopArtistKeys(sess, artist_id)

\* data.pop(artist_id, None) in the delete handler
DeletedData(d, artist_id) == DictPop(d, artist_id)

\* st.session_state.pop(f"del_confirm_{artist_id}", None)
DeletedFlags(flags, artist_id) == flags \ {artist_id}

\* btn_del_ok_<id>: the confirmed delete
ConfirmDelete ==
    /\ Ready
    /\ events' = events + 1
    /\ \E d0 \in RunData :
           \E artist_id \in Shown(d0) :
               LET d1 == DeletedData(d0, artist_id)
               IN  /\ artist_id \in sessionDel
                   /\ sessionDel' = DeletedFlags(sessionDel, artist_id)
                   /\ FinishRun(d1, save_data(d1), DeletedSession(sessionCb, artist_id),
                                filter_mode)
                   /\ deleted' = {r \in deleted : r.id # artist_id}
                                  \cup {[id |-> artist_id,
                                          label |-> Lookup(d0, artist_id).label,
                                          done |-> DoneCount(Lookup(d0, artist_id)),
                                          open |-> TRUE]}
                   /\ last' = Op("delete", artist_id, TRUE, TRUE, <<>>, NoFile)
    /\ UNCHANGED <<filter_mode, pc, nextId>>

\* btn_del_cancel_<id>
CancelDelete ==
    /\ Ready
    /\ events' = events + 1
    /\ \E d0 \in RunData :
           \E artist_id \in Shown(d0) :
               /\ artist_id \in sessionDel
               /\ sessionDel' = sessionDel \ {artist_id}
               /\ FinishRun(d0, LoadedStore(store), sessionCb, filter_mode)
               /\ last' = Op("cancel_delete", artist_id, TRUE, FALSE, <<>>, NoFile)
    /\ UNCHANGED <<filter_mode, pc, nextId, deleted>>

\* btn_reset_all: progress.json is unlinked and the run stops before the cards
ResetAll ==
    /\ Ready
    /\ events' = events + 1
    /\ store.file
    /\ store' = NoFile
    /\ \E d0 \in RunData : data' = d0
    /\ last' = Op("reset_all", <<>>, TRUE, TRUE, <<>>, NoFile)
    /\ UNCHANGED <<sessionCb, sessionDel, filter_mode, pc, nextId, deleted>>

Next ==
    \/ Start
    \/ \E new_name \in Names : Create(new_name)
    \/ \E mode \in FilterModes : SetFilter(mode)
    \/ DragReorder
    \/ MoveUp
    \/ MoveDown
    \/ SetAll
    \/ ClearAll
    \/ ResetSteps
    \/ Toggle
    \/ AskDelete
    \/ ConfirmDelete
    \/ CancelDelete
    \/ ResetAll

Spec == Init /\ [][Next]_vars

\* The application started on an empty store: no progress.json, or one that
\* holds the empty object.
EmptyStores == {NoFile, File(<<>>)}

InitEmpty ==
    /\ store \in EmptyStores
    /\ data = <<>>
    /\ sessionCb = NoSession
    /\ sessionDel = {}
    /\ filter_mode = "Hepsi"
    /\ pc = "start"
    /\ nextId = 0
    /\ events = 0
    /\ deleted = {}
    /\ last = NoOp

SpecEmpty == InitEmpty /\ [][Next]_vars

-----------------------------------------------------------------------------
(* Properties of apply_subset_reorder                                      *)

IsReorder == last.op = "reorder"

DistinctOrders(d) == \A i, j \in 1..Len(d) : i # j => d[i].order # d[j].order

Orders(d) == {d[i].order : i \in 1..Len(d)}

\* the order values are a permutation of 1..N
DenseOrders(d) == DistinctOrders(d) /\ Orders(d) = 1..Len(d)

\* the indices of the full list that hold a member of the set
SlotsOf(full_ids, members) == {i \in 1..Len(full_ids) : full_ids[i] \in members}

\* the k-th smallest element of a set of indices
KthSlot(slots, k) == CHOOSE i \in slots : Cardinality({j \in slots : j <= i}) = k

HasRepeat(s) == \E i, j \in 1..Len(s) : i # j /\ s[i] = s[j]

\* C1: after an accepted call on a collection with distinct order values,
\* every artist whose id is not in subset_ids_new_order sits at the index of
\* the full list (sorted by order) it sat at before the call.
C1_OthersKeepIndex ==
    (IsReorder /\ last.accepted /\ DistinctOrders(last.pre)) =>
        LET before == FullIds(last.pre)
            after == FullIds(data)
        IN  /\ Len(after) = Len(before)
            /\ \A i \in 1..Len(before) :
                   before[i] \notin Range(last.arg) => after[i] = before[i]

\* C1 witness: a call that changed the order of a collection with distinct
\* order values, in which an artist outside the subset sits between two
\* members of the subset.
C1_Witness ==
    /\ IsReorder /\ last.accepted /\ last.result
    /\ DistinctOrders(last.pre)
    /\ LET before == FullIds(last.pre)
       IN  \E i, j, k \in 1..Len(before) :
               /\ i < j /\ j < k
               /\ before[i] \in Range(last.arg)
               /\ before[j] \notin Range(last.arg)
               /\ before[k] \in Range(last.arg)

\* C2: after an accepted call the subset occupies the same indices of the
\* full list as before, and the k-th of these indices (ascending) holds the
\* k-th id of subset_ids_new_order; full order [A,B,C,D,E] with subset
\* ordering [D,B] gives [A,D,C,B,E].
C2_SlotsHoldNewOrder ==
    (IsReorder /\ last.accepted) =>
        LET before == FullIds(last.pre)
            after == FullIds(data)
            slots == SlotsOf(before, Range(last.arg))
        IN  /\ SlotsOf(after, Range(last.arg)) = slots
            /\ Cardinality(slots) = Len(last.arg)
            /\ \A k \in 1..Len(last.arg) : after[KthSlot(slots, k)] = last.arg[k]
            /\ (before = <<Str("A"), Str("B"), Str("C"), Str("D"), Str("E")>>
                 /\ last.arg = <<Str("D"), Str("B")>>)
                => after = <<Str("A"), Str("D"), Str("C"), Str("B"), Str("E")>>

\* C2 witness: the documented example has been applied.
C2_Witness ==
    /\ IsReorder /\ last.accepted /\ last.result
    /\ FullIds(last.pre) = <<Str("A"), Str("B"), Str("C"), Str("D"), Str("E")>>
    /\ last.arg = <<Str("D"), Str("B")>>
    /\ FullIds(data) = <<Str("A"), Str("D"), Str("C"), Str("B"), Str("E")>>

\* C3: a call whose list holds an id that is not in the collection returns
\* false and changes neither an order field nor the persisted store.
C3_StaleSubsetRejected ==
    (IsReorder /\ \E x \in Range(last.arg) : x \notin Ids(last.pre)) =>
        /\ ~last.result
        /\ data = last.pre
        /\ store = last.preStore

\* C3 witness: a list that would reorder two present artists but also names
\* an id that is not in the collection has been submitted.
C3_Witness ==
    /\ IsReorder
    /\ StaleId \in Range(last.arg)
    /\ Len(last.arg) = MaxSubsetLen
    /\ \E i, j \in 1..Len(last.arg) :
           /\ i < j
           /\ last.arg[i] \in Ids(last.pre) /\ last.arg[j] \in Ids(last.pre)
           /\ \E a, b \in 1..Len(last.pre) :
                  /\ FullIds(last.pre)[a] = last.arg[j]
                  /\ FullIds(last.pre)[b] = last.arg[i]
                  /\ a < b
    /\ ~last.result

\* C4 as stated: after any call whose ids are all in the collection the
\* order values are a permutation of 1..N.
C4_AnyReorderNormalizes ==
    (IsReorder /\ Range(last.arg) \subseteq Ids(last.pre)) => DenseOrders(data)

\* C4 amended: a call that returns true leaves the order values a
\* permutation of 1..N, whatever ties or gaps they had; a call that returns
\* false leaves every order value as it was.
C4_ChangedReorderNormalizes ==
    IsReorder =>
        /\ last.result => DenseOrders(data)
        /\ ~last.result =>
              /\ Len(data) = Len(last.pre)
              /\ \A i \in 1..Len(data) : data[i].order = last.pre[i].order

\* C4 witness: a call returned true on a collection whose order values had
\* a tie and the sentinel.
C4_Witness ==
    /\ IsReorder /\ last.result
    /\ ~DistinctOrders(last.pre)
    /\ Sentinel \in Orders(last.pre)
    /\ DenseOrders(data)

\* C10: whatever list is passed, the id set of the collection is unchanged
\* and the full list after the call is a permutation of the full list
\* before it; a list with a repeated id is rejected.
C10_NoLossNoDuplicate ==
    IsReorder =>
        LET before == FullIds(last.pre)
            after == FullIds(data)
        IN  /\ Ids(data) = Ids(last.pre)
            /\ Len(after) = Len(before)
            /\ \A x \in Range(before) :
                   Cardinality(SlotsOf(after, {x})) = Cardinality(SlotsOf(before, {x}))
            /\ HasRepeat(last.arg) => (~last.accepted /\ ~last.result /\ data = last.pre)

\* C10 witness: a list of present ids with one of them repeated was passed.
C10_Witness ==
    /\ IsReorder
    /\ HasRepeat(last.arg)
    /\ Range(last.arg) \subseteq Ids(last.pre)
    /\ Cardinality(Range(last.arg)) > 1
    /\ ~last.result

-----------------------------------------------------------------------------
(* Properties of load_data                                                 *)

\* C7: a second load_data, run on the file the first one wrote, returns the
\* same collection and leaves the file as the first load wrote it.
C7_LoadIdempotent ==
    last.op = "reload" =>
        /\ last.accepted
        /\ data = last.pre
        /\ store = last.preStore

\* C7 witness: the second load has run on a file whose first content held an
\* entry with a blank label and an entry that was skipped or overwritten.
C7_Witness ==
    /\ last.op = "reload" /\ last.accepted
    /\ \E i \in 1..Len(last.arg) :
           last.arg[i].val.obj /\ last.arg[i].val.label = RawStr(<<" ", " ">>)
    /\ Len(data) < Len(last.arg)
    /\ data # <<>>

\* C8: load_data completes on every shape of stored entry, and every entry
\* that is an object is recovered into the collection.
C8_LoadNeverFails ==
    last.op \in {"load", "reload"} =>
        /\ pc = "run"
        /\ last.accepted
        /\ \A i \in 1..Len(last.arg) :
               last.arg[i].val.obj => LoadedId(last.arg[i].key, last.arg[i].val) \in Ids(data)

-----------------------------------------------------------------------------
(* Properties of the application                                           *)

\* no step of the record is checked
AllStepsFalse(ap) ==
    /\ \A gk \in DOMAIN ap.global_steps : ~ap.global_steps[gk]
    /\ \A vk \in DOMAIN ap.variants : \A sk \in DOMAIN ap.variants[vk] : ~ap.variants[vk][sk]

\* the file holds no entry stored under the id or carrying it
AbsentFromStore(f, artist_id) ==
    \A i \in 1..Len(f.entries) :
        /\ f.entries[i].key # artist_id
        /\ f.entries[i].val.id # RawStr(artist_id)

\* nothing of a deleted artist is left: record, file entry, checkbox keys,
\* delete-confirm flag
DeletedGone ==
    \A r \in deleted :
        /\ r.id \notin Ids(data)
        /\ AbsentFromStore(store, r.id)
        /\ KeysOf(sessionCb, r.id) = {}
        /\ r.id \notin DOMAIN sessionCb
        /\ r.id \notin sessionDel

\* the create added an artist with the typed label, an id that neither a
\* present nor a deleted artist has, and every step false, and saved it
CreatedFresh ==
    \E i \in 1..Len(data) :
        /\ data[i].label = Strip(last.arg)
        /\ data[i].id \notin Ids(last.pre)
        /\ data[i].id \notin {r.id : r \in deleted}
        /\ AllStepsFalse(data[i])
        /\ DOMAIN data[i].global_steps = GlobalKeys
        /\ DOMAIN data[i].variants = VariantKeys
        /\ \E k \in 1..Len(store.entries) :
               store.entries[k].key = data[i].id /\ store.entries[k].val = asdict(data[i])

C6_DuplicateCreateRejected ==
    (/\ last.op = "create"
     /\ \E i \in 1..Len(last.pre) : norm(last.pre[i].label) = norm(last.arg))
    => /\ ~last.accepted
       /\ data = last.pre
       /\ store = last.preStore
       /\ Ids(data) = Ids(last.pre)
       /\ Len(data) = Len(last.pre)

\* C6 witness: a create was rejected whose typed label differs from the label
\* of the artist it collides with in blanks and capitals only.
C6_Witness ==
    /\ last.op = "create" /\ ~last.accepted
    /\ Strip(last.arg) # <<>>
    /\ \E i \in 1..Len(last.pre) :
           /\ last.pre[i].label # Strip(last.arg)
           /\ Lower(last.pre[i].label) # Lower(Strip(last.arg))
           /\ norm(last.pre[i].label) = norm(last.arg)
    /\ data = last.pre

\* the entry of the file the first load read that load_data kept for the id
LoadedFrom(entries, artist_id) ==
    LET hits == {i \in 1..Len(entries) :
                    entries[i].val.obj /\ LoadedId(entries[i].key, entries[i].val) = artist_id}
    IN  entries[CHOOSE i \in hits : \A j \in hits : j <= i].val

\* the truth value the file gives a step: false when the key is not there
StoredStep(x, k) ==
    /\ x.t = "obj"
    /\ k \in DOMAIN x.m
    /\ PyBool(x.m[k])

\* C9: in every state every artist has exactly the GLOBAL_STEPS keys in
\* global_steps and exactly the VARIANTS keys in variants, each with exactly
\* the COLUMN_STEPS keys, and so has every entry of the file once it was
\* loaded; after the first load each step has the truth value the file gave
\* it, false when the file had no such key.
C9_StepMapsComplete ==
    /\ \A i \in 1..Len(data) :
           /\ DOMAIN data[i].global_steps = GlobalKeys
           /\ DOMAIN data[i].variants = VariantKeys
           /\ \A vk \in VariantKeys : DOMAIN data[i].variants[vk] = ColumnKeys
    /\ pc = "run" =>
           \A k \in 1..Len(store.entries) :
               /\ DOMAIN store.entries[k].val.global_steps.m = GlobalKeys
               /\ DOMAIN store.entries[k].val.variants.m = VariantKeys
               /\ \A vk \in VariantKeys :
                      DOMAIN store.entries[k].val.variants.m[vk].m = ColumnKeys
    /\ last.op = "start" =>
           \A i \in 1..Len(data) :
               LET v == LoadedFrom(last.arg, data[i].id)
               IN  /\ \A gk \in GlobalKeys :
                          data[i].global_steps[gk] = StoredStep(v.global_steps, gk)
                   /\ \A vk \in VariantKeys : \A sk \in ColumnKeys :
                          data[i].variants[vk][sk] =
                              (/\ v.variants.t = "obj"
                               /\ vk \in DOMAIN v.variants.m
                               /\ StoredStep(v.variants.m[vk], sk))

\* C9 witness: a file whose entries had step keys missing and keys outside
\* the catalogs was loaded, and later an artist was created, a checkbox
\* clicked or a bulk button pressed.
C9_Witness ==
    /\ pc = "run"
    /\ last.op \in {"create", "toggle", "set_all", "clear_all", "reset", "reorder", "delete"}
    /\ data # <<>>
    /\ \E i \in 1..Len(data) : data[i].id = Str("A") /\ ~AllStepsFalse(data[i])
    /\ \E i \in 1..Len(data) : data[i].id = Str("B")

\* the labels of the entries of the file, as written
StoredLabels(f) == [k \in 1..Len(f.entries) |-> f.entries[k].val.label.s]

NormDistinct(labels) ==
    \A i, j \in 1..Len(labels) : i # j => norm(labels[i]) # norm(labels[j])

\* C11: from an empty store, in every state no two artists of the collection,
\* and no two entries of the file, have labels that are equal after trimming,
\* collapsing whitespace runs and lowercasing.
C11_NoNormEqualLabels ==
    /\ NormDistinct([i \in 1..Len(data) |-> data[i].label])
    /\ NormDistinct(StoredLabels(store))

\* C11 witness: the collection holds two artists and a create whose label
\* differs from the label of one of them in blanks or capitals only has just
\* been refused.
C11_Witness ==
    /\ pc = "run"
    /\ Len(data) = 2
    /\ Len(store.entries) = 2
    /\ last.op = "create" /\ ~last.accepted
    /\ \E i \in 1..Len(data) :
           /\ data[i].label # Strip(last.arg)
           /\ norm(data[i].label) = norm(last.arg)
    /\ \E i, j \in 1..Len(data) : data[i].label # data[j].label

====
